---- MODULE Spec2Model ----
(***************************************************************************)
(* TouchGrass reminder scheduling engine (src-tauri/src/app_state.rs).     *)
(*                                                                         *)
(* Time is counted in seconds and observed at whole minutes: every         *)
(* duration the engine handles is a whole number of minutes.  The idle     *)
(* poll, whose period is shorter than a minute, may tick at any moment.    *)
(* The monotonic clock (Instant) and the wall clock (Utc) are one clock    *)
(* here: the wall clock is never stepped.                                  *)
(*                                                                         *)
(* Spec is the engine loop.  The idle sampler (idle_detection.rs) has its  *)
(* own specification, DetectorSpec, and so have the u64 arithmetic of the  *)
(* durations (WidthSpec), the control channel (ChannelSpec) and the        *)
(* command surface's update_preferences (SurfaceSpec); the variables of    *)
(* one part stay parked at fixed values while another part runs.           *)
(***************************************************************************)
EXTENDS Integers, Sequences, FiniteSets, TLC

(* ------------------------------ constants ------------------------------ *)

MIN_IDLE_THRESHOLD_MINUTES == 1
MAX_IDLE_THRESHOLD_MINUTES == 30
(* seconds in a minute: the `* 60` of interval_duration, idle_threshold_secs, snooze *)
MinuteSecs == 60

(* Option<_>::None for the optional timestamps and the optional idle sample *)
None == -1
(* Err(IdleDetectionError) returned by IdleDetector::get_idle_time *)
SampleErr == -1
(* the sampler was not called in this event *)
NotSampled == -2

(* -------------------------------- bounds ------------------------------- *)

(* number of minutes the sampler's clock may advance *)
MaxIdleMinutes == 3

(* number of minutes the clock may advance *)
MaxMinutes == 4
(* largest snooze request, in minutes *)
MaxSnoozeIn == 2

(* interval_minutes found in preferences.json at start-up (not clamped) *)
StoredIntervals == {0}
(* idle_threshold_minutes found in preferences.json at start-up *)
StoredThresholds == {2}
(* interval_minutes supplied to update_preferences *)
UpdateIntervals == {1}
(* idle_threshold_minutes supplied to update_preferences *)
UpdateThresholds == {0}
(* minutes supplied to snooze_for_minutes *)
SnoozeMinutes == {0, MaxSnoozeIn}
(* seconds of inactivity the sampler may report *)
IdleSecs == {0, 120}
SampleOutcomes == IdleSecs \cup {SampleErr}

(* ----------------------------- pure functions -------------------------- *)

Max(a, b) == IF a >= b THEN a ELSE b
Min(a, b) == IF a <= b THEN a ELSE b
Clamp(x, lo, hi) == Max(lo, Min(x, hi))

(* Preferences::interval_duration, in seconds *)
interval_duration(p) == Max(p.interval_minutes, 1) * MinuteSecs

(* Preferences::idle_threshold_secs *)
idle_threshold_secs(p) ==
    Clamp(p.idle_threshold_minutes, MIN_IDLE_THRESHOLD_MINUTES, MAX_IDLE_THRESHOLD_MINUTES) * MinuteSecs

clamp_idle_threshold_minutes(minutes) ==
    Clamp(minutes, MIN_IDLE_THRESHOLD_MINUTES, MAX_IDLE_THRESHOLD_MINUTES)

(* the supplied interval taken as it is *)
update_preferences_unclamped(p, update) ==
    [interval_minutes |->
        IF update.interval_minutes # None
        THEN update.interval_minutes ELSE p.interval_minutes,
     activity_detection |->
        IF update.activity_detection # None
        THEN (update.activity_detection = 1) ELSE p.activity_detection,
     idle_threshold_minutes |->
        IF update.idle_threshold_minutes # None
        THEN clamp_idle_threshold_minutes(update.idle_threshold_minutes)
        ELSE p.idle_threshold_minutes]

(* AppState::update_preferences: the preferences it stores, sends and returns *)
update_preferences(p, update) ==
    [interval_minutes |->
        IF update.interval_minutes # None
        THEN Clamp(update.interval_minutes, 2, 240) ELSE p.interval_minutes,
     activity_detection |->
        IF update.activity_detection # None
        THEN (update.activity_detection = 1) ELSE p.activity_detection,
     idle_threshold_minutes |->
        IF update.idle_threshold_minutes # None
        THEN clamp_idle_threshold_minutes(update.idle_threshold_minutes)
        ELSE p.idle_threshold_minutes]

(* AppState::snooze: the Duration carried by ControlMessage::Snooze *)
snooze(duration_minutes) == Max(duration_minutes, 1) * MinuteSecs

(* timestamp_from_instant, evaluated at time t *)
timestamp_from_instant(instant, t) ==
    LET offset == IF instant >= t THEN instant - t ELSE 0
    IN  t + offset

(* the PreferencesUpdate values a caller may send *)
Updates ==
    [interval_minutes : {None} \cup UpdateIntervals,
     activity_detection : {None, 0, 1},
     idle_threshold_minutes : {None} \cup UpdateThresholds]

(* ------------------------------- state --------------------------------- *)

VARIABLES
    now,             \* the clock
    prefs,           \* run_engine: prefs
    paused,          \* run_engine: paused
    snoozed_until,   \* run_engine: snoozed_until
    next_instant,    \* run_engine: next_instant, the deadline `sleep` is armed at
    was_idle,        \* run_engine: was_idle
    last_idle_secs,  \* run_engine: last_idle_secs
    status,          \* the shared StatusSnapshot (Arc<Mutex<StatusSnapshot>>)
    ev,              \* the event handled by the last step
    pubs,            \* the snapshots update_status emitted in the last step
    notes,           \* number of send_reminder calls in the last step
    snooze_req,      \* expiry of the last Snooze, None once ClearSnooze / SkipCurrent ran
    \* ---- IdleDetector (idle_detection.rs)
    wl_env,               \* what the session offers: connect / registry / seat / notifier
    wayland_handle,       \* IdleDetector.wayland_handle is Some
    threshold_secs,       \* IdleDetector.threshold_secs
    listener,             \* position of the listener thread
    wl_idle,              \* the compositor's last notification was `Idled`
    is_idle,              \* AtomicBool is_idle
    idle_since_timestamp, \* AtomicU64 idle_since_timestamp
    d_clock,              \* SystemTime::now(), seconds
    query,                \* the running / last get_idle_time call
    idled_at,             \* the clock at the last IdleEvent::Idled handled, None before the first
    \* ---- u64 arithmetic of the durations
    w_build,              \* "debug": overflow checks on; "release": wrapping
    w_in,                 \* the u64 number of minutes a caller or the file supplies
    w_call,               \* the function applied last
    w_out,                \* its outcome: a panic, or a u64 number of seconds
    w_chan,               \* the Duration of a ControlMessage::Snooze in the channel
    w_engine,             \* "running" or "panicked"
    \* ---- the control channel (mpsc::channel(16))
    c_issued,             \* number of commands whose send was started
    c_waiting,            \* commands whose `send(..).await` waits for capacity
    c_queue,              \* the channel's buffer
    c_done,               \* commands the engine has received, in order
    c_log,                \* commands in the order they entered the buffer
    \* ---- the command surface (AppState)
    s_prefs,              \* AppState.preferences
    s_file,               \* preferences.json: whether it parses, and its content
    s_calls,              \* each update_preferences call: position, locals, result
    s_chan,               \* the PreferencesUpdated messages in the control channel
    s_engine,             \* run_engine: prefs
    s_autolaunch,         \* whether the OS autostart entry is enabled
    \* ---- load_preferences at start-up
    l_file,               \* what preferences.json holds
    l_backups,            \* what each backup path holds
    l_found,              \* what preferences.json held when the load started
    l_earlier,            \* the backup paths that existed when the load started
    l_pc,                 \* where load_preferences is
    l_counter,            \* backup_corrupt_preferences: the candidate path
    l_ret,                \* what load_preferences returned
    \* ---- the tray's pause item (tray.rs)
    t_activations,        \* number of activations of the pause item so far
    t_tasks,              \* the task each activation spawned: position and flag
    t_chan,               \* the Pause messages in the control channel
    t_paused,             \* run_engine: paused
    t_status,             \* StatusSnapshot.paused
    \* ---- the idle threshold of the engine and of its IdleDetector
    g_clock,              \* the clock, seconds
    g_input_at,           \* the clock at the user's last input
    g_backend,            \* "wayland": event-driven; "x11": asked at each sample
    g_threshold_secs,     \* IdleDetector.threshold_secs, set by IdleDetector::new
    g_prefs,              \* run_engine: prefs
    g_is_idle,            \* AtomicBool is_idle
    g_idle_since,         \* AtomicU64 idle_since_timestamp
    g_replaced,           \* a PreferencesUpdated has changed the idle threshold
    g_check               \* the last idle check of the engine

vars == <<now, prefs, paused, snoozed_until, next_instant, was_idle,
          last_idle_secs, status, ev, pubs, notes, snooze_req>>

dvars == <<wl_env, wayland_handle, threshold_secs, listener, wl_idle, is_idle,
           idle_since_timestamp, d_clock, query,
          idled_at>>

wvars == <<w_build, w_in, w_call, w_out, w_chan, w_engine>>

cvars == <<c_issued, c_waiting, c_queue, c_done, c_log>>

svars == <<s_prefs, s_file, s_calls, s_chan, s_engine, s_autolaunch>>

lvars == <<l_file, l_backups, l_found, l_earlier, l_pc, l_counter, l_ret>>

tvars == <<t_activations, t_tasks, t_chan, t_paused, t_status>>

gvars == <<g_clock, g_input_at, g_backend, g_threshold_secs, g_prefs, g_is_idle,
           g_idle_since, g_replaced, g_check>>

(* the variables the engine loop does not touch *)
off_engine == <<dvars, wvars, cvars, svars, lvars, tvars, gvars>>

(* the variables the idle detector does not touch *)
off_detector == <<vars, wvars, cvars, svars, lvars, tvars, gvars>>

(* the variables the duration arithmetic does not touch *)
off_width == <<vars, dvars, cvars, svars, lvars, tvars, gvars>>

(* the variables the control channel does not touch *)
off_channel == <<vars, dvars, wvars, svars, lvars, tvars, gvars>>

(* the variables update_preferences does not touch *)
off_surface == <<vars, dvars, wvars, cvars, lvars, tvars, gvars>>

(* the variables load_preferences does not touch *)
off_load == <<vars, dvars, wvars, cvars, svars, tvars, gvars>>

(* the variables a step of the tray's pause item leaves alone *)
off_tray == <<vars, dvars, wvars, cvars, svars, lvars, gvars>>

(* the variables a step of the threshold part leaves alone *)
off_threshold == <<vars, dvars, wvars, cvars, svars, lvars, tvars>>

allvars == <<vars, off_engine>>

(* no sampler: the detector's variables while another part runs *)
DetectorParked ==
    /\ wl_env = [connect |-> FALSE, registry |-> FALSE, seat |-> FALSE, notifier |-> FALSE]
    /\ wayland_handle = FALSE
    /\ threshold_secs = 0
    /\ listener = "absent"
    /\ wl_idle = FALSE
    /\ is_idle = FALSE
    /\ idle_since_timestamp = 0
    /\ d_clock = 0
    /\ query = [pc |-> "none", source |-> "none", result |-> None]
    /\ idled_at = None

(* no arithmetic under way *)
WidthParked ==
    /\ w_build = "release"
    /\ w_in = <<0, 0, 0, 0>>
    /\ w_call = "none"
    /\ w_out = [panic |-> FALSE, val |-> <<0, 0, 0, 0>>]
    /\ w_chan = <<>>
    /\ w_engine = "running"

(* an empty channel nobody uses *)
ChannelParked ==
    /\ c_issued = 0
    /\ c_waiting = {}
    /\ c_queue = <<>>
    /\ c_done = <<>>
    /\ c_log = <<>>

(* no load under way *)
LoadParked ==
    /\ l_file = "absent"
    /\ l_backups = <<>>
    /\ l_found = "absent"
    /\ l_earlier = {}
    /\ l_pc = "off"
    /\ l_counter = 0
    /\ l_ret = "none"

(* no update_preferences call *)
SurfaceParked ==
    /\ s_prefs = None
    /\ s_file = None
    /\ s_calls = None
    /\ s_chan = <<>>
    /\ s_engine = None
    /\ s_autolaunch = FALSE

(* the pause item never activated *)
TrayParked ==
    /\ t_activations = 0
    /\ t_tasks = <<>>
    /\ t_chan = <<>>
    /\ t_paused = FALSE
    /\ t_status = FALSE

(* no idle check under way *)
ThresholdParked ==
    /\ g_clock = 0
    /\ g_input_at = 0
    /\ g_backend = "none"
    /\ g_threshold_secs = 0
    /\ g_prefs = None
    /\ g_is_idle = FALSE
    /\ g_idle_since = 0
    /\ g_replaced = FALSE
    /\ g_check = None

(* StatusSnapshot::default *)
StatusDefault ==
    [paused |-> FALSE, snoozed_until |-> None, next_trigger_at |-> None,
     last_notification_at |-> None, idle_seconds |-> None]

(* the snapshot a pure function of the engine state would give
   (last_notification_at lives only in the snapshot itself) *)
Derived(p, s, n, i, t) ==
    [paused |-> p, snoozed_until |-> s,
     next_trigger_at |-> IF p THEN None ELSE timestamp_from_instant(n, t),
     idle_seconds |-> i]

(* update_status: one emitted snapshot, with the engine state at that moment *)
Emit(snap, p, s, n, i, t) == [snap |-> snap, derived |-> Derived(p, s, n, i, t)]

(* the event a step handled: its kind, its input, and the pause flag and idle
   flag it found *)
Event(kind, arg) ==
    [kind |-> kind, arg |-> arg, was_paused |-> paused, found_idle |-> was_idle]

Init ==
    /\ now = 0
    /\ prefs \in [interval_minutes : StoredIntervals,
                  activity_detection : BOOLEAN,
                  idle_threshold_minutes : StoredThresholds]
    /\ paused = FALSE
    /\ snoozed_until = None
    /\ next_instant = now + interval_duration(prefs)
    /\ was_idle = FALSE
    /\ last_idle_secs = None
    /\ status = [StatusDefault EXCEPT
                    !.paused = paused,
                    !.snoozed_until = snoozed_until,
                    !.next_trigger_at = timestamp_from_instant(next_instant, now),
                    !.idle_seconds = last_idle_secs]
    /\ ev = [kind |-> "Start", arg |-> None, was_paused |-> FALSE,
             found_idle |-> FALSE]
    /\ pubs = <<Emit(status, paused, snoozed_until, next_instant, last_idle_secs, now)>>
    /\ notes = 0
    /\ snooze_req = None
    /\ DetectorParked
    /\ WidthParked
    /\ ChannelParked
    /\ SurfaceParked
    /\ LoadParked
    /\ TrayParked
    /\ ThresholdParked

(* ------------------------------ the clock ------------------------------ *)

(* Time passes: one minute.  The armed deadline is handled before the clock
   moves past it. *)
Tick ==
    /\ now < next_instant
    /\ now + MinuteSecs <= MaxMinutes * MinuteSecs
    /\ now' = now + MinuteSecs
    /\ ev' = Event("Tick", None)
    /\ pubs' = <<>>
    /\ notes' = 0
    /\ UNCHANGED <<off_engine, prefs, paused, snoozed_until, next_instant,
                   was_idle, last_idle_secs, status, snooze_req>>

(* --------------------------- deadline firing --------------------------- *)

(* the comparison turned round *)
snooze_pending_reversed(until, t) == until # None /\ until < t

(* deadline branch: `if now < until` *)
snooze_pending(until, t) == until # None /\ t < until

(* idle only strictly above the threshold *)
idle_now_strict(secs, p) == secs > idle_threshold_secs(p)

(* `secs >= idle_threshold_secs` *)
idle_now(secs, p) == secs >= idle_threshold_secs(p)

(* the closing snapshot stamped as if a reminder had gone out *)
deadline_final_snapshot_stamped(snap, p, s, n, i, t) ==
    [snap EXCEPT !.paused = p,
                 !.snoozed_until = s,
                 !.next_trigger_at = IF p THEN None ELSE timestamp_from_instant(n, t),
                 !.last_notification_at = t,
                 !.idle_seconds = i]

(* the closing snapshot without the snooze state *)
deadline_final_snapshot_nosnooze(snap, p, s, n, i, t) ==
    [snap EXCEPT !.paused = p,
                 !.next_trigger_at = IF p THEN None ELSE timestamp_from_instant(n, t),
                 !.idle_seconds = i]

(* deadline branch: the snapshot after the second update_status *)
deadline_final_snapshot(snap, p, s, n, i, t) ==
    [snap EXCEPT
        !.paused = p,
        !.snoozed_until = s,
        !.next_trigger_at = IF p THEN None ELSE timestamp_from_instant(n, t),
        !.idle_seconds = i]

(* the interval taken without its one-minute floor *)
deadline_rearm_nofloor(p, t) == t + p.interval_minutes * MinuteSecs

(* a failed sample taken for a reading *)
sample_ok_any(sample) == TRUE

(* `if let Ok(secs) = idle_detector.get_idle_time()` *)
sample_ok(sample) == sample # SampleErr

(* deadline branch: `next_instant = Instant::now() + prefs.interval_duration()` *)
deadline_rearm(p, t) == t + interval_duration(p)

(* `_ = &mut sleep => { ... }` *)
DeadlineFired ==
    /\ now >= next_instant
    /\ LET pending == ~paused /\ snooze_pending(snoozed_until, now)
           snz     == IF ~paused /\ snoozed_until # None /\ ~snooze_pending(snoozed_until, now)
                      THEN None ELSE snoozed_until
           consult == ~paused /\ ~pending /\ prefs.activity_detection
       IN  \E sample \in IF consult THEN SampleOutcomes ELSE {NotSampled} :
             LET sampled == consult /\ sample_ok(sample)
                 idle    == IF sampled THEN sample
                            ELSE IF ~prefs.activity_detection THEN None
                            ELSE last_idle_secs
                 notify_user == /\ ~paused
                                /\ ~pending
                                /\ ~(sampled /\ idle_now(sample, prefs))
                 st1  == IF notify_user
                         THEN [status EXCEPT !.last_notification_at = now,
                                             !.idle_seconds = idle]
                         ELSE [status EXCEPT !.idle_seconds = idle]
                 next == deadline_rearm(prefs, now)
                 st2  == deadline_final_snapshot(st1, paused, snz, next, idle, now)
             IN  /\ snoozed_until' = snz
                 /\ last_idle_secs' = idle
                 /\ was_idle' = IF sampled THEN idle_now(sample, prefs) ELSE was_idle
                 /\ next_instant' = next
                 /\ status' = st2
                 /\ notes' = IF notify_user THEN 1 ELSE 0
                 /\ pubs' = <<Emit(st1, paused, snz, next_instant, idle, now),
                              Emit(st2, paused, snz, next, idle, now)>>
                 /\ ev' = Event("Deadline", sample)
    /\ UNCHANGED <<off_engine, now, prefs, paused, snooze_req>>

(* ----------------------------- idle-poll tick -------------------------- *)

(* the returning user's fresh interval granted in spite of a running snooze *)
poll_rearms_unsnoozed(active, p, snz, t) == active /\ ~p

(* idle-poll branch: `updated_next`, for a user who just became active *)
poll_rearms(active, p, snz, t) == active /\ ~p /\ ~(snz # None /\ snz > t)

(* a stale idle flag left alone *)
poll_stale_sample_only(last, flag) == last # None

(* idle-poll branch, detection off: `last_idle_secs.is_some() || was_idle` *)
poll_stale(last, flag) == last # None \/ flag

(* `_ = idle_poll.tick() => { ... }` *)
IdlePoll ==
    /\ notes' = 0
    /\ \E sample \in IF prefs.activity_detection THEN SampleOutcomes ELSE {NotSampled} :
         /\ ev' = Event("IdlePoll", sample)
         /\ IF prefs.activity_detection
            THEN IF sample_ok(sample)
                 THEN LET active  == ~idle_now(sample, prefs) /\ was_idle
                          snz     == IF active /\ ~paused /\ snoozed_until # None
                                        /\ snoozed_until <= now
                                     THEN None ELSE snoozed_until
                          updated_next  == poll_rearms(active, paused, snz, now)
                          next    == IF updated_next
                                     THEN now + interval_duration(prefs)
                                     ELSE next_instant
                          st      == [status EXCEPT
                                        !.idle_seconds = sample,
                                        !.paused = paused,
                                        !.snoozed_until = snz,
                                        !.next_trigger_at =
                                            IF paused THEN None
                                            ELSE IF updated_next
                                                 THEN timestamp_from_instant(next, now)
                                                 ELSE @]
                      IN  /\ last_idle_secs' = sample
                          /\ was_idle' = idle_now(sample, prefs)
                          /\ snoozed_until' = snz
                          /\ next_instant' = next
                          /\ status' = st
                          /\ pubs' = <<Emit(st, paused, snz, next, sample, now)>>
                 ELSE /\ pubs' = <<>>
                      /\ UNCHANGED <<last_idle_secs, was_idle, snoozed_until,
                                     next_instant, status>>
            ELSE IF poll_stale(last_idle_secs, was_idle)
                 THEN /\ last_idle_secs' = None
                      /\ was_idle' = FALSE
                      /\ status' = [status EXCEPT !.idle_seconds = None]
                      /\ pubs' = <<Emit(status', paused, snoozed_until,
                                        next_instant, None, now)>>
                      /\ UNCHANGED <<snoozed_until, next_instant>>
                 ELSE /\ pubs' = <<>>
                      /\ UNCHANGED <<last_idle_secs, was_idle, snoozed_until,
                                     next_instant, status>>
    /\ UNCHANGED <<off_engine, now, prefs, paused, snooze_req>>

(* --------------------------- control commands -------------------------- *)

(* the snooze wait restarted from the new interval *)
recalculated_next_restart(until, p, t) == t + interval_duration(p)

(* a snooze's expiry taken as the deadline even when it has passed *)
recalculated_next_stale(until, p, t) ==
    IF until # None THEN until ELSE t + interval_duration(p)

(* PreferencesUpdated: the deadline recomputed from the snooze or the interval *)
recalculated_next(until, p, t) ==
    IF until # None /\ until > t
    THEN t + (until - t)
    ELSE t + interval_duration(p)

(* ControlMessage::PreferencesUpdated(new_prefs), sent by update_preferences *)
PreferencesUpdated ==
    \E update \in Updates :
      LET new_prefs == update_preferences(prefs, update)
          snz  == IF snoozed_until # None /\ ~(snoozed_until > now)
                  THEN None ELSE snoozed_until
          next == recalculated_next(snoozed_until, new_prefs, now)
          st   == [status EXCEPT
                     !.paused = paused,
                     !.snoozed_until = snz,
                     !.next_trigger_at =
                         IF paused THEN None ELSE timestamp_from_instant(next, now),
                     !.idle_seconds = last_idle_secs]
      IN  /\ prefs' = new_prefs
          /\ snoozed_until' = snz
          /\ next_instant' = next
          /\ status' = st
          /\ pubs' = <<Emit(st, paused, snz, next, last_idle_secs, now)>>
          /\ notes' = 0
          /\ ev' = Event("PreferencesUpdated", None)
          /\ UNCHANGED <<off_engine, now, paused, was_idle, last_idle_secs, snooze_req>>

(* un-pausing resumes the deadline that was armed *)
pause_next_keep(flag, n, p, t) == n

(* ControlMessage::Pause: the deadline after the command *)
pause_next(flag, n, p, t) == IF ~flag THEN t + interval_duration(p) ELSE n

(* ControlMessage::Pause(flag), sent by set_pause *)
Pause ==
    \E flag \in BOOLEAN :
      LET next == pause_next(flag, next_instant, prefs, now)
          st   == [status EXCEPT
                     !.paused = flag,
                     !.next_trigger_at =
                         IF flag THEN None ELSE timestamp_from_instant(next, now),
                     !.idle_seconds = last_idle_secs]
      IN  /\ paused' = flag
          /\ next_instant' = next
          /\ status' = st
          /\ pubs' = <<Emit(st, flag, snoozed_until, next, last_idle_secs, now)>>
          /\ notes' = 0
          /\ ev' = Event("Pause", IF flag THEN 1 ELSE 0)
          /\ UNCHANGED <<off_engine, now, prefs, snoozed_until, was_idle, last_idle_secs,
                         snooze_req>>

(* the duration taken as minutes where seconds are meant *)
snooze_until_minutes(duration, t) == t + duration \div MinuteSecs

(* ControlMessage::Snooze: `until` *)
snooze_until(duration, t) == t + duration

(* ControlMessage::Snooze(duration), sent by snooze *)
Snooze ==
    \E duration_minutes \in SnoozeMinutes :
      LET duration == snooze(duration_minutes)
          until == snooze_until(duration, now)
          next  == now + duration
          st    == [status EXCEPT
                     !.snoozed_until = until,
                     !.next_trigger_at = timestamp_from_instant(next, now),
                     !.idle_seconds = last_idle_secs]
      IN  /\ snoozed_until' = until
          /\ next_instant' = next
          /\ status' = st
          /\ pubs' = <<Emit(st, paused, until, next, last_idle_secs, now)>>
          /\ notes' = 0
          /\ ev' = Event("Snooze", duration)
          /\ snooze_req' = now + duration
          /\ UNCHANGED <<off_engine, now, prefs, paused, was_idle, last_idle_secs>>

(* ControlMessage::ClearSnooze: the deadline after the command *)
clear_next(p, n, pr, t) == IF ~p THEN t + interval_duration(pr) ELSE n

(* ControlMessage::ClearSnooze without the event it records *)
ClearSnoozeBody ==
    LET next == clear_next(paused, next_instant, prefs, now)
        st   == [status EXCEPT
                   !.snoozed_until = None,
                   !.next_trigger_at =
                       IF paused THEN None ELSE timestamp_from_instant(next, now),
                   !.idle_seconds = last_idle_secs]
    IN  /\ snoozed_until' = None
        /\ next_instant' = next
        /\ status' = st
        /\ pubs' = <<Emit(st, paused, None, next, last_idle_secs, now)>>
        /\ notes' = 0
        /\ snooze_req' = None
        /\ UNCHANGED <<off_engine, now, prefs, paused, was_idle, last_idle_secs>>

(* ControlMessage::ClearSnooze, sent by clear_snooze *)
ClearSnooze ==
    /\ ClearSnoozeBody
    /\ ev' = Event("ClearSnooze", None)

(* the skipped break leaving the armed deadline in place *)
skip_next_keep(p, n, pr, t) == n

(* ControlMessage::SkipCurrent: the deadline after the command *)
skip_next(p, n, pr, t) == IF ~p THEN t + interval_duration(pr) ELSE n

(* ControlMessage::SkipCurrent without the event it records *)
SkipCurrentBody ==
    LET next == skip_next(paused, next_instant, prefs, now)
        st   == [status EXCEPT
                   !.snoozed_until = None,
                   !.next_trigger_at =
                       IF paused THEN None ELSE timestamp_from_instant(next, now),
                   !.idle_seconds = last_idle_secs]
    IN  /\ snoozed_until' = None
        /\ next_instant' = next
        /\ status' = st
        /\ pubs' = <<Emit(st, paused, None, next, last_idle_secs, now)>>
        /\ notes' = 0
        /\ snooze_req' = None
        /\ UNCHANGED <<off_engine, now, prefs, paused, was_idle, last_idle_secs>>

(* ControlMessage::SkipCurrent, sent by skip_current_break *)
SkipCurrent ==
    /\ SkipCurrentBody
    /\ ev' = Event("SkipCurrent", None)

(* the manual trigger honouring the pause flag *)
trigger_reminders_unpaused(p) == IF p THEN 0 ELSE 1

(* TriggerNow: number of send_reminder calls, whatever the pause flag p *)
trigger_reminders(p) == 1

(* ControlMessage::TriggerNow, sent by trigger_preview *)
TriggerNow ==
    LET st1  == [status EXCEPT !.last_notification_at = now,
                               !.idle_seconds = last_idle_secs]
        next == now + interval_duration(prefs)
        st2  == [st1 EXCEPT !.next_trigger_at = timestamp_from_instant(next, now),
                            !.idle_seconds = last_idle_secs]
    IN  /\ next_instant' = next
        /\ status' = st2
        /\ pubs' = <<Emit(st1, paused, snoozed_until, next_instant, last_idle_secs, now),
                     Emit(st2, paused, snoozed_until, next, last_idle_secs, now)>>
        /\ notes' = trigger_reminders(paused)
        /\ ev' = Event("TriggerNow", None)
        /\ UNCHANGED <<off_engine, now, prefs, paused, snoozed_until, was_idle, last_idle_secs,
                       snooze_req>>

(* `Some(msg) = control_rx.recv() => match msg { ... }` *)
Control ==
    \/ PreferencesUpdated
    \/ Pause
    \/ Snooze
    \/ ClearSnooze
    \/ SkipCurrent
    \/ TriggerNow

(* the latest time of the clock *)
Horizon == MaxMinutes * MinuteSecs

(* `loop { tokio::select! { ... } }` *)
Next ==
    \/ Tick
    \/ DeadlineFired
    \/ IdlePoll
    \/ Control

Spec == Init /\ [][Next]_allvars

(* the engine under a fair timer: time passes, and a `sleep` that has elapsed
   is taken by select! *)
LiveSpec ==
    /\ Init
    /\ [][Next]_allvars
    /\ WF_allvars(Tick)
    /\ WF_allvars(DeadlineFired)

TypeOK ==
    /\ now \in 0..(MaxMinutes * MinuteSecs)
    /\ paused \in BOOLEAN
    /\ was_idle \in BOOLEAN
    /\ notes \in 0..1
    /\ Len(pubs) <= 2


(* ------------------------------------------------------------------------ *)
(* IdleDetector (idle_detection.rs)                                         *)
(* ------------------------------------------------------------------------ *)

(* the engine's variables while another part runs *)
EngineParked ==
    /\ now = 0
    /\ prefs = [interval_minutes |-> 0, activity_detection |-> FALSE,
                idle_threshold_minutes |-> 0]
    /\ paused = FALSE
    /\ snoozed_until = None
    /\ next_instant = 0
    /\ was_idle = FALSE
    /\ last_idle_secs = None
    /\ status = StatusDefault
    /\ ev = [kind |-> "Off", arg |-> None, was_paused |-> FALSE,
             found_idle |-> FALSE]
    /\ pubs = <<>>
    /\ notes = 0
    /\ snooze_req = None

(* u64::saturating_sub *)
saturating_sub(a, b) == IF a >= b THEN a - b ELSE 0

(* setup_wayland_idle_detection: `Some(WaylandIdleHandle { .. })` is returned
   once Connection::connect_to_env succeeded, whatever the thread then finds *)
handle_is_some(env) == env.connect

(* IdleDetector::new, for the threshold the engine passes at start-up *)
DetectorInit ==
    /\ wl_env \in [connect : BOOLEAN, registry : BOOLEAN, seat : BOOLEAN,
                   notifier : BOOLEAN]
    /\ threshold_secs \in {idle_threshold_secs([idle_threshold_minutes |-> m]) :
                              m \in StoredThresholds \cup UpdateThresholds}
    /\ wayland_handle = handle_is_some(wl_env)
    /\ listener = IF wl_env.connect THEN "spawned" ELSE "absent"
    /\ wl_idle = FALSE
    /\ is_idle = FALSE
    /\ idle_since_timestamp = 0
    /\ d_clock = 0
    /\ query = [pc |-> "none", source |-> "none", result |-> None]
    /\ idled_at = None
    /\ EngineParked
    /\ WidthParked
    /\ ChannelParked
    /\ SurfaceParked
    /\ LoadParked
    /\ TrayParked
    /\ ThresholdParked

(* the listener thread up to its dispatch loop: registry_queue_init, the two
   binds, get_idle_notification *)
ListenerStart ==
    /\ listener = "spawned"
    /\ listener' = IF wl_env.registry /\ wl_env.seat /\ wl_env.notifier
                   THEN "subscribed" ELSE "exited"
    /\ UNCHANGED <<idled_at, wl_env, wayland_handle, threshold_secs, wl_idle, is_idle,
                   idle_since_timestamp, d_clock, query, off_detector>>

(* IdleEvent::Idled, first store: is_idle *)
IdledFlag ==
    /\ listener = "subscribed"
    /\ ~wl_idle
    /\ wl_idle' = TRUE
    /\ is_idle' = TRUE
    /\ idled_at' = d_clock
    /\ listener' = "idled"
    /\ UNCHANGED <<wl_env, wayland_handle, threshold_secs, idle_since_timestamp,
                   d_clock, query, off_detector>>

(* IdleEvent::Idled, second store: idle_since_timestamp *)
IdledStamp ==
    /\ listener = "idled"
    /\ idle_since_timestamp' = saturating_sub(d_clock, threshold_secs)
    /\ listener' = "subscribed"
    /\ UNCHANGED <<idled_at, wl_env, wayland_handle, threshold_secs, wl_idle, is_idle,
                   d_clock, query, off_detector>>

(* IdleEvent::Resumed, first store: is_idle *)
ResumedFlag ==
    /\ listener = "subscribed"
    /\ wl_idle
    /\ wl_idle' = FALSE
    /\ is_idle' = FALSE
    /\ listener' = "resumed"
    /\ UNCHANGED <<idled_at, wl_env, wayland_handle, threshold_secs, idle_since_timestamp,
                   d_clock, query, off_detector>>

(* IdleEvent::Resumed, second store: idle_since_timestamp *)
ResumedStamp ==
    /\ listener = "resumed"
    /\ idle_since_timestamp' = 0
    /\ listener' = "subscribed"
    /\ UNCHANGED <<idled_at, wl_env, wayland_handle, threshold_secs, wl_idle, is_idle,
                   d_clock, query, off_detector>>

(* get_idle_time with a Wayland handle: the load of is_idle *)
QueryFlag ==
    /\ query.pc # "flag"
    /\ wayland_handle
    /\ query' = IF is_idle
                THEN [pc |-> "flag", source |-> "wayland", result |-> None]
                ELSE [pc |-> "done", source |-> "wayland", result |-> 0]
    /\ UNCHANGED <<idled_at, wl_env, wayland_handle, threshold_secs, listener, wl_idle,
                   is_idle, idle_since_timestamp, d_clock, off_detector>>

(* get_idle_time with a Wayland handle: the load of idle_since_timestamp *)
QueryStamp ==
    /\ query.pc = "flag"
    /\ query' = [pc |-> "done", source |-> "wayland",
                 result |-> Max(saturating_sub(d_clock, idle_since_timestamp),
                                threshold_secs)]
    /\ UNCHANGED <<idled_at, wl_env, wayland_handle, threshold_secs, listener, wl_idle,
                   is_idle, idle_since_timestamp, d_clock, off_detector>>

(* get_idle_time without a handle: try_x11_idle *)
QueryX11 ==
    /\ query.pc # "flag"
    /\ ~wayland_handle
    /\ \E r \in SampleOutcomes :
         query' = [pc |-> "done", source |-> "x11", result |-> r]
    /\ UNCHANGED <<idled_at, wl_env, wayland_handle, threshold_secs, listener, wl_idle,
                   is_idle, idle_since_timestamp, d_clock, off_detector>>

(* SystemTime::now() moves on by a minute *)
DetectorTick ==
    /\ d_clock + MinuteSecs <= MaxIdleMinutes * MinuteSecs
    /\ d_clock' = d_clock + MinuteSecs
    /\ UNCHANGED <<idled_at, wl_env, wayland_handle, threshold_secs, listener, wl_idle,
                   is_idle, idle_since_timestamp, query, off_detector>>

DetectorNext ==
    \/ ListenerStart
    \/ IdledFlag
    \/ IdledStamp
    \/ ResumedFlag
    \/ ResumedStamp
    \/ QueryFlag
    \/ QueryStamp
    \/ QueryX11
    \/ DetectorTick

DetectorSpec == DetectorInit /\ [][DetectorNext]_allvars

(* the session delivers idle notifications: every step of the subscription works *)
Subscribable == wl_env.connect /\ wl_env.registry /\ wl_env.seat /\ wl_env.notifier


(* ------------------------------------------------------------------------ *)
(* The durations in their u64 width                                         *)
(* ------------------------------------------------------------------------ *)

(* A u64 is four 16-bit limbs, least significant first. *)
LimbBase == 65536

(* the limbs the inputs are made of: 0, 1, 2^14, 2^16 - 1 *)
LimbValues == {0, 1, 16384, LimbBase - 1}

(* the u64 of a number below 2^31 *)
u64(n) == <<n % LimbBase, n \div LimbBase, 0, 0>>

(* u64::MAX *)
U64_MAX == <<LimbBase - 1, LimbBase - 1, LimbBase - 1, LimbBase - 1>>

u64_lt(x, y) ==
    \E i \in 1..4 : x[i] < y[i] /\ \A j \in (i + 1)..4 : x[j] = y[j]

(* u64::max *)
u64_max(x, y) == IF u64_lt(x, y) THEN y ELSE x

(* u64::clamp *)
u64_clamp(x, lo, hi) == IF u64_lt(x, lo) THEN lo ELSE IF u64_lt(hi, x) THEN hi ELSE x

(* x * k for a small k: the low 64 bits and what was carried out of them *)
u64_mul_wide(x, k) ==
    LET p1 == x[1] * k
        p2 == x[2] * k + p1 \div LimbBase
        p3 == x[3] * k + p2 \div LimbBase
        p4 == x[4] * k + p3 \div LimbBase
    IN  [val |-> <<p1 % LimbBase, p2 % LimbBase, p3 % LimbBase, p4 % LimbBase>>,
         carry |-> p4 \div LimbBase]

(* the `*` of u64: a panic with overflow checks, wrapping without *)
u64_mul(x, k, build) ==
    LET wide == u64_mul_wide(x, k)
    IN  [panic |-> wide.carry # 0 /\ build = "debug", val |-> wide.val]

(* u64::saturating_mul *)
u64_saturating_mul(x, k) ==
    LET wide == u64_mul_wide(x, k)
    IN  IF wide.carry # 0 THEN U64_MAX ELSE wide.val

(* Preferences::interval_duration for a u64 interval_minutes *)
interval_duration_u64(interval_minutes, build) ==
    u64_mul(u64_max(interval_minutes, u64(1)), MinuteSecs, build)

(* Preferences::idle_threshold_secs for a u64 idle_threshold_minutes *)
idle_threshold_secs_u64(idle_threshold_minutes) ==
    u64_saturating_mul(
        u64_clamp(idle_threshold_minutes, u64(MIN_IDLE_THRESHOLD_MINUTES),
                  u64(MAX_IDLE_THRESHOLD_MINUTES)),
        MinuteSecs)

(* AppState::snooze for a u64 duration_minutes *)
snooze_u64(duration_minutes, build) ==
    u64_mul(u64_max(duration_minutes, u64(1)), MinuteSecs, build)

(* the largest whole number of seconds chrono::Duration holds:
   i64::MAX milliseconds, 9223372036854775 s *)
CHRONO_MAX_SECS == <<21495, 42467, 50331, 32>>

(* `chrono::Duration::from_std(duration)` is Ok *)
from_std_ok(duration) == ~u64_lt(CHRONO_MAX_SECS, duration)

WidthInit ==
    /\ w_build \in {"debug", "release"}
    /\ w_in \in LimbValues \X LimbValues \X LimbValues \X LimbValues
    /\ w_call = "none"
    /\ w_out = [panic |-> FALSE, val |-> <<0, 0, 0, 0>>]
    /\ w_chan = <<>>
    /\ w_engine = "running"
    /\ EngineParked
    /\ DetectorParked
    /\ ChannelParked
    /\ SurfaceParked
    /\ LoadParked
    /\ TrayParked
    /\ ThresholdParked

(* snooze_for_minutes -> AppState::snooze: the Duration is computed and, unless
   the computation panicked, sent *)
SurfaceSnooze ==
    /\ w_chan = <<>>
    /\ w_call' = "snooze"
    /\ w_out' = snooze_u64(w_in, w_build)
    /\ w_chan' = IF w_out'.panic THEN <<>> ELSE w_out'.val
    /\ UNCHANGED <<w_build, w_in, w_engine, off_width>>

(* ControlMessage::Snooze(duration) up to `from_std(duration).unwrap()`; the
   additions to Utc::now() and Instant::now() that follow are not looked at *)
EngineSnooze ==
    /\ w_chan # <<>>
    /\ w_engine = "running"
    /\ w_engine' = IF from_std_ok(w_chan) THEN "running" ELSE "panicked"
    /\ w_chan' = <<>>
    /\ UNCHANGED <<w_build, w_in, w_call, w_out, off_width>>

(* prefs.interval_duration() *)
CallIntervalDuration ==
    /\ w_call' = "interval"
    /\ w_out' = interval_duration_u64(w_in, w_build)
    /\ UNCHANGED <<w_build, w_in, w_chan, w_engine, off_width>>

(* prefs.idle_threshold_secs() *)
CallIdleThresholdSecs ==
    /\ w_call' = "threshold"
    /\ w_out' = [panic |-> FALSE, val |-> idle_threshold_secs_u64(w_in)]
    /\ UNCHANGED <<w_build, w_in, w_chan, w_engine, off_width>>

WidthNext ==
    \/ SurfaceSnooze
    \/ EngineSnooze
    \/ CallIntervalDuration
    \/ CallIdleThresholdSecs

WidthSpec == WidthInit /\ [][WidthNext]_allvars


(* ------------------------------------------------------------------------ *)
(* The control channel                                                      *)
(* ------------------------------------------------------------------------ *)

(* `mpsc::channel(16)` *)
CONTROL_CHANNEL_CAPACITY == 16

(* number of commands the callers issue *)
MaxCommands == 19

(* the newest message handed over first *)
channel_recv_newest(q) == q[Len(q)]

(* `control_rx.recv()`: the message handed to the engine *)
channel_recv(q) == Head(q)

(* what stays in the buffer after channel_recv *)
channel_rest(q) == Tail(q)

(* `control_tx.send(msg)` once there is capacity *)
channel_push(q, msg) == Append(q, msg)

ChannelInit ==
    /\ c_issued = 0
    /\ c_waiting = {}
    /\ c_queue = <<>>
    /\ c_done = <<>>
    /\ c_log = <<>>
    /\ EngineParked
    /\ DetectorParked
    /\ WidthParked
    /\ SurfaceParked
    /\ LoadParked
    /\ TrayParked
    /\ ThresholdParked

(* set_pause / snooze / clear_snooze / ...: `control_tx.send(msg).await` is
   reached; the message goes in if there is room, the task waits if not *)
SendStart ==
    /\ c_issued < MaxCommands
    /\ c_issued' = c_issued + 1
    /\ IF Len(c_queue) < CONTROL_CHANNEL_CAPACITY /\ c_waiting = {}
       THEN /\ c_queue' = channel_push(c_queue, c_issued + 1)
            /\ c_log' = Append(c_log, c_issued + 1)
            /\ UNCHANGED c_waiting
       ELSE /\ c_waiting' = c_waiting \cup {c_issued + 1}
            /\ UNCHANGED <<c_queue, c_log>>
    /\ UNCHANGED <<c_done, off_channel>>

(* a waiting `send(..).await` completes once there is capacity *)
SendResume ==
    /\ Len(c_queue) < CONTROL_CHANNEL_CAPACITY
    /\ \E msg \in c_waiting :
         /\ c_waiting' = c_waiting \ {msg}
         /\ c_queue' = channel_push(c_queue, msg)
         /\ c_log' = Append(c_log, msg)
    /\ UNCHANGED <<c_issued, c_done, off_channel>>

(* `Some(msg) = control_rx.recv() => match msg { .. }` *)
Receive ==
    /\ c_queue # <<>>
    /\ c_done' = Append(c_done, channel_recv(c_queue))
    /\ c_queue' = channel_rest(c_queue)
    /\ UNCHANGED <<c_issued, c_waiting, c_log, off_channel>>

ChannelNext ==
    \/ SendStart
    \/ SendResume
    \/ Receive

ChannelSpec == ChannelInit /\ [][ChannelNext]_allvars


(* ------------------------------------------------------------------------ *)
(* The command surface: AppState::update_preferences                        *)
(* ------------------------------------------------------------------------ *)

DEFAULT_INTERVAL_MINUTES == 30

DEFAULT_IDLE_THRESHOLD_MINUTES == 2

(* number of update_preferences calls, each on its own task *)
MaxCalls == 2

Calls == 1..MaxCalls

(* ThemeMode *)
Dark == 0
Light == 1

(* Preferences::default *)
DefaultPreferences ==
    [interval_minutes |-> DEFAULT_INTERVAL_MINUTES,
     activity_detection |-> TRUE,
     sound_enabled |-> TRUE,
     autostart_enabled |-> TRUE,
     theme |-> Dark,
     idle_threshold_minutes |-> DEFAULT_IDLE_THRESHOLD_MINUTES]

(* the fields of Preferences and of PreferencesUpdate *)
PreferenceFields ==
    {"interval_minutes", "activity_detection", "sound_enabled",
     "autostart_enabled", "theme", "idle_threshold_minutes"}

(* PreferencesUpdate with every field None *)
NoUpdate == [f \in PreferenceFields |-> None]

(* the PreferencesUpdate values the callers send; a flag is 0 or 1 *)
SurfaceUpdates ==
    {[NoUpdate EXCEPT !.interval_minutes = 300],
     [NoUpdate EXCEPT !.interval_minutes = 1, !.theme = Light],
     [NoUpdate EXCEPT !.idle_threshold_minutes = 0, !.sound_enabled = 0],
     [NoUpdate EXCEPT !.idle_threshold_minutes = 31, !.autostart_enabled = 0],
     [NoUpdate EXCEPT !.activity_detection = 0]}

(* AppState::update_preferences: `prefs` after the six `if let Some(..)` *)
apply_update(p, update) ==
    LET core == update_preferences(p, update)
    IN  [interval_minutes |-> core.interval_minutes,
         activity_detection |-> core.activity_detection,
         sound_enabled |->
            IF update.sound_enabled # None
            THEN (update.sound_enabled = 1) ELSE p.sound_enabled,
         autostart_enabled |->
            IF update.autostart_enabled # None
            THEN (update.autostart_enabled = 1) ELSE p.autostart_enabled,
         theme |-> IF update.theme # None THEN update.theme ELSE p.theme,
         idle_threshold_minutes |-> core.idle_threshold_minutes]

(* a call that has not started *)
CallIdle ==
    [pc |-> "idle", update |-> NoUpdate, before |-> DefaultPreferences,
     local |-> DefaultPreferences, ret |-> <<>>, sent |-> <<>>, err |-> FALSE]

SurfaceInit ==
    /\ s_prefs = DefaultPreferences
    /\ s_file = [valid |-> TRUE, content |-> DefaultPreferences]
    /\ s_calls = [c \in Calls |-> CallIdle]
    /\ s_chan = <<>>
    /\ s_engine = DefaultPreferences
    /\ s_autolaunch = TRUE
    /\ EngineParked
    /\ DetectorParked
    /\ WidthParked
    /\ ChannelParked
    /\ LoadParked
    /\ TrayParked
    /\ ThresholdParked

(* `self.preferences.lock().unwrap().clone()` and the six `if let Some(..)` *)
CallRead(c) ==
    /\ s_calls[c].pc = "idle"
    /\ \E update \in SurfaceUpdates :
         s_calls' = [s_calls EXCEPT ![c] =
                        [@ EXCEPT !.pc = "computed", !.update = update,
                                  !.before = s_prefs,
                                  !.local = apply_update(s_prefs, update)]]
    /\ UNCHANGED <<s_prefs, s_file, s_chan, s_engine, s_autolaunch, off_surface>>

(* save_preferences whose error is dropped instead of returned with `?` *)
CallSave_error_ignored(c) ==
    /\ s_calls[c].pc = "computed"
    /\ \/ /\ s_file' = [valid |-> TRUE, content |-> s_calls[c].local]
          /\ s_calls' = [s_calls EXCEPT ![c].pc = "saved"]
       \/ /\ s_file' \in {s_file, [s_file EXCEPT !.valid = FALSE]}
          /\ s_calls' = [s_calls EXCEPT ![c].pc = "saved", ![c].err = TRUE]
    /\ UNCHANGED <<s_prefs, s_chan, s_engine, s_autolaunch, off_surface>>

(* `save_preferences(&self.preferences_path, &prefs)?`: File::create may fail
   (the file is as it was), the write may fail (the file is cut short) *)
CallSave(c) ==
    /\ s_calls[c].pc = "computed"
    /\ \/ /\ s_file' = [valid |-> TRUE, content |-> s_calls[c].local]
          /\ s_calls' = [s_calls EXCEPT ![c].pc = "saved"]
       \/ /\ s_file' \in {s_file, [s_file EXCEPT !.valid = FALSE]}
          /\ s_calls' = [s_calls EXCEPT ![c].pc = "done", ![c].err = TRUE]
    /\ UNCHANGED <<s_prefs, s_chan, s_engine, s_autolaunch, off_surface>>

(* `*guard = prefs.clone()` *)
CallStore(c) ==
    /\ s_calls[c].pc = "saved"
    /\ s_prefs' = s_calls[c].local
    /\ s_calls' = [s_calls EXCEPT ![c].pc = "stored"]
    /\ UNCHANGED <<s_file, s_chan, s_engine, s_autolaunch, off_surface>>

(* `control_tx.send(PreferencesUpdated(prefs.clone())).await.ok()`, then
   apply_autostart (which may fail and only log) and `Ok(prefs)` *)
CallSendReturn(c) ==
    /\ s_calls[c].pc = "stored"
    /\ s_chan' = Append(s_chan, s_calls[c].local)
    /\ s_calls' = [s_calls EXCEPT ![c].pc = "done",
                                  ![c].sent = <<s_calls[c].local>>,
                                  ![c].ret = <<s_calls[c].local>>]
    /\ IF s_calls[c].update.autostart_enabled # None
       THEN s_autolaunch' \in {s_calls[c].update.autostart_enabled = 1, s_autolaunch}
       ELSE UNCHANGED s_autolaunch
    /\ UNCHANGED <<s_prefs, s_file, s_engine, off_surface>>

(* run_engine: `ControlMessage::PreferencesUpdated(new_prefs) => prefs = new_prefs` *)
SurfaceReceive ==
    /\ s_chan # <<>>
    /\ s_engine' = Head(s_chan)
    /\ s_chan' = Tail(s_chan)
    /\ UNCHANGED <<s_prefs, s_file, s_calls, s_autolaunch, off_surface>>

SurfaceNext ==
    \/ \E c \in Calls : CallRead(c)
    \/ \E c \in Calls : CallSave(c)
    \/ \E c \in Calls : CallStore(c)
    \/ \E c \in Calls : CallSendReturn(c)
    \/ SurfaceReceive

SurfaceSpec == SurfaceInit /\ [][SurfaceNext]_allvars


(* ------------------------------------------------------------------------ *)
(* load_preferences and backup_corrupt_preferences                          *)
(* ------------------------------------------------------------------------ *)

(* number of backup paths that may exist before the load *)
MaxBackups == 3

(* the backup paths: 0 is preferences.json.corrupt, k is preferences.json.corrupt.k *)
BackupPaths == 0..MaxBackups

(* what preferences.json may hold at start-up: nothing, valid JSON, text that
   does not parse, bytes that are not UTF-8 *)
FileKinds == {"absent", "valid", "corrupt", "binary"}

(* backup_corrupt_preferences: `counter += 1` *)
next_candidate(counter) == counter + 1

LoadInit ==
    /\ l_file \in FileKinds
    /\ l_earlier \in SUBSET (0..(MaxBackups - 1))
    /\ l_backups = [k \in BackupPaths |-> IF k \in l_earlier THEN "earlier" ELSE "none"]
    /\ l_found = l_file
    /\ l_pc = "exists"
    /\ l_counter = 0
    /\ l_ret = "none"
    /\ EngineParked
    /\ DetectorParked
    /\ WidthParked
    /\ ChannelParked
    /\ SurfaceParked
    /\ TrayParked
    /\ ThresholdParked

(* `if !path.exists() { return Ok(Preferences::default()); }` *)
LoadExists ==
    /\ l_pc = "exists"
    /\ IF l_file = "absent"
       THEN l_pc' = "done" /\ l_ret' = "defaults"
       ELSE l_pc' = "read" /\ UNCHANGED l_ret
    /\ UNCHANGED <<l_file, l_backups, l_found, l_earlier, l_counter, off_load>>

(* `fs::read_to_string(path)?`: fails for bytes that are not UTF-8, may fail
   for any file; then `serde_json::from_str` *)
LoadReadParse ==
    /\ l_pc = "read"
    /\ \E read_ok \in IF l_file = "binary" THEN {FALSE} ELSE BOOLEAN :
         IF ~read_ok
         THEN l_pc' = "done" /\ l_ret' = "err"
         ELSE IF l_file = "valid"
              THEN l_pc' = "done" /\ l_ret' = "stored"
              ELSE l_pc' = "pick" /\ UNCHANGED l_ret
    /\ UNCHANGED <<l_file, l_backups, l_found, l_earlier, l_counter, off_load>>

(* backup_corrupt_preferences: `backup_path.exists()` / `candidate.exists()` *)
BackupPick ==
    /\ l_pc = "pick"
    /\ IF l_backups[l_counter] = "none"
       THEN l_pc' = "rename" /\ UNCHANGED l_counter
       ELSE l_counter' = next_candidate(l_counter) /\ UNCHANGED l_pc
    /\ UNCHANGED <<l_file, l_backups, l_found, l_earlier, l_ret, off_load>>

(* `match fs::rename(path, &backup_path)`: on Err, `fs::remove_file(path)`,
   which may fail as well *)
BackupRename ==
    /\ l_pc = "rename"
    /\ \/ /\ l_backups' = [l_backups EXCEPT ![l_counter] = "original"]
          /\ l_file' = "absent"
       \/ /\ l_file' \in {"absent", l_file}
          /\ UNCHANGED l_backups
    /\ l_pc' = "save"
    /\ UNCHANGED <<l_found, l_earlier, l_counter, l_ret, off_load>>

(* `save_preferences(path, &defaults)?; Ok(defaults)`: File::create may fail,
   the write may fail on the truncated file *)
LoadSave ==
    /\ l_pc = "save"
    /\ \/ l_file' = "defaults" /\ l_ret' = "defaults"
       \/ UNCHANGED l_file /\ l_ret' = "err"
       \/ l_file' = "partial" /\ l_ret' = "err"
    /\ l_pc' = "done"
    /\ UNCHANGED <<l_backups, l_found, l_earlier, l_counter, off_load>>

LoadNext ==
    \/ LoadExists
    \/ LoadReadParse
    \/ BackupPick
    \/ BackupRename
    \/ LoadSave

LoadSpec == LoadInit /\ [][LoadNext]_allvars


(* ------------------------------------------------------------------------ *)
(* the tray's pause item (tray.rs, handle_menu_event)                       *)
(* ------------------------------------------------------------------------ *)

(* number of activations of the pause item *)
MaxActivations == 4

TrayInit ==
    /\ t_activations = 0
    /\ t_tasks = <<>>
    /\ t_chan = <<>>
    /\ t_paused = FALSE
    /\ t_status = FALSE
    /\ EngineParked
    /\ DetectorParked
    /\ WidthParked
    /\ ChannelParked
    /\ SurfaceParked
    /\ LoadParked
    /\ ThresholdParked

(* MENU_PAUSE: `let paused = state.status().paused;` and the spawn of the
   task that will call `set_pause(!paused)` *)
TrayActivate ==
    /\ t_activations < MaxActivations
    /\ t_activations' = t_activations + 1
    /\ t_tasks' = Append(t_tasks, [pc |-> "spawned", flag |-> ~t_status])
    /\ UNCHANGED <<t_chan, t_paused, t_status, off_tray>>

(* the spawned task: `control_tx.send(ControlMessage::Pause(paused)).await`
   (the tray label it syncs afterwards is not part of the engine) *)
TraySend(i) ==
    /\ t_tasks[i].pc = "spawned"
    /\ t_chan' = Append(t_chan, t_tasks[i].flag)
    /\ t_tasks' = [t_tasks EXCEPT ![i].pc = "sent"]
    /\ UNCHANGED <<t_activations, t_paused, t_status, off_tray>>

(* run_engine: `ControlMessage::Pause(flag) => paused = flag` and the
   snapshot's `snapshot.paused = paused` *)
TrayReceive ==
    /\ t_chan # <<>>
    /\ t_paused' = Head(t_chan)
    /\ t_status' = Head(t_chan)
    /\ t_chan' = Tail(t_chan)
    /\ UNCHANGED <<t_activations, t_tasks, off_tray>>

TrayNext ==
    \/ TrayActivate
    \/ \E i \in 1..Len(t_tasks) : TraySend(i)
    \/ TrayReceive

TraySpec == TrayInit /\ [][TrayNext]_allvars


(* ------------------------------------------------------------------------ *)
(* the idle threshold of the engine and the one its IdleDetector was built  *)
(* with (app_state.rs run_engine, idle_detection.rs)                        *)
(* ------------------------------------------------------------------------ *)

(* idle_threshold_minutes the preferences may hold, at start-up and after an update *)
ThresholdMinutes == {1, 2}

(* no idle check made yet *)
NoCheck ==
    [kind |-> "none", sample |-> NotSampled, idle |-> FALSE, inactive |-> 0,
     threshold |-> 0, detection |-> FALSE, replaced |-> FALSE, pending |-> FALSE]

(* the compositor owes an Idled notification: the user has been inactive for
   the timeout the notification was requested with *)
idled_due == g_backend = "wayland" /\ ~g_is_idle /\ g_clock - g_input_at >= g_threshold_secs

(* `let idle_detector = IdleDetector::new(prefs.idle_threshold_secs());` with
   a session that delivers idle notifications, or one without Wayland *)
ThresholdInit ==
    /\ g_clock = 0
    /\ g_input_at = 0
    /\ g_backend \in {"wayland", "x11"}
    /\ g_prefs \in [activity_detection : BOOLEAN, idle_threshold_minutes : ThresholdMinutes]
    /\ g_threshold_secs = idle_threshold_secs(g_prefs)
    /\ g_is_idle = FALSE
    /\ g_idle_since = 0
    /\ g_replaced = FALSE
    /\ g_check = NoCheck
    /\ EngineParked
    /\ DetectorParked
    /\ WidthParked
    /\ ChannelParked
    /\ SurfaceParked
    /\ LoadParked
    /\ TrayParked

(* the clock moves on by a minute; a notification the compositor owes is
   handled by the listener thread well within that minute *)
ThresholdTick ==
    /\ ~idled_due
    /\ g_clock + MinuteSecs <= MaxIdleMinutes * MinuteSecs
    /\ g_clock' = g_clock + MinuteSecs
    /\ UNCHANGED <<g_input_at, g_backend, g_threshold_secs, g_prefs, g_is_idle,
                   g_idle_since, g_replaced, g_check, off_threshold>>

(* the user touches the machine; the compositor follows an Idled with
   IdleEvent::Resumed: is_idle = false, idle_since_timestamp = 0 *)
ThresholdInput ==
    /\ g_input_at < g_clock
    /\ g_input_at' = g_clock
    /\ g_is_idle' = FALSE
    /\ g_idle_since' = 0
    /\ UNCHANGED <<g_clock, g_backend, g_threshold_secs, g_prefs, g_replaced,
                   g_check, off_threshold>>

(* IdleEvent::Idled, sent once the user was inactive for the timeout given to
   get_idle_notification: is_idle = true, idle_since_timestamp = now - threshold_secs *)
ThresholdIdled ==
    /\ idled_due
    /\ g_is_idle' = TRUE
    /\ g_idle_since' = saturating_sub(g_clock, g_threshold_secs)
    /\ UNCHANGED <<g_clock, g_input_at, g_backend, g_threshold_secs, g_prefs,
                   g_replaced, g_check, off_threshold>>

(* `ControlMessage::PreferencesUpdated(new_prefs) => prefs = new_prefs`, with
   another idle threshold; idle_detector is left as it was built *)
ThresholdReplaced ==
    /\ \E m \in ThresholdMinutes, a \in BOOLEAN :
          /\ m # g_prefs.idle_threshold_minutes
          /\ g_prefs' = [activity_detection |-> a,
                         idle_threshold_minutes |-> clamp_idle_threshold_minutes(m)]
    /\ g_replaced' = TRUE
    /\ UNCHANGED <<g_clock, g_input_at, g_backend, g_threshold_secs, g_is_idle,
                   g_idle_since, g_check, off_threshold>>

(* IdleDetector::get_idle_time: with the handle, 0 unless is_idle, else
   max(now - idle_since_timestamp, threshold_secs); without it try_x11_idle,
   which reports the time since the last input or fails *)
get_idle_time_outcomes ==
    IF g_backend = "wayland"
    THEN {IF g_is_idle
          THEN Max(saturating_sub(g_clock, g_idle_since), g_threshold_secs)
          ELSE 0}
    ELSE {g_clock - g_input_at, SampleErr}

(* the idle check of the deadline branch and of the idle-poll tick:
   `if let Ok(secs) = idle_detector.get_idle_time()` and
   `secs >= prefs.idle_threshold_secs()` *)
ThresholdCheck ==
    /\ \E sample \in get_idle_time_outcomes :
          g_check' = [kind |-> "checked",
                      sample |-> IF g_prefs.activity_detection THEN sample ELSE NotSampled,
                      idle |-> /\ g_prefs.activity_detection
                               /\ sample_ok(sample)
                               /\ idle_now(sample, g_prefs),
                      inactive |-> g_clock - g_input_at,
                      threshold |-> idle_threshold_secs(g_prefs),
                      detection |-> g_prefs.activity_detection,
                      replaced |-> g_replaced,
                      pending |-> idled_due]
    /\ UNCHANGED <<g_clock, g_input_at, g_backend, g_threshold_secs, g_prefs,
                   g_is_idle, g_idle_since, g_replaced, off_threshold>>

ThresholdNext ==
    \/ ThresholdTick
    \/ ThresholdInput
    \/ ThresholdIdled
    \/ ThresholdReplaced
    \/ ThresholdCheck

ThresholdSpec == ThresholdInit /\ [][ThresholdNext]_allvars

(* ------------------------------------------------------------------------ *)
(* Properties                                                               *)
(* ------------------------------------------------------------------------ *)

(* the four fields of a snapshot that the engine state determines *)
EngineView(snap) ==
    [paused |-> snap.paused, snoozed_until |-> snap.snoozed_until,
     next_trigger_at |-> snap.next_trigger_at, idle_seconds |-> snap.idle_seconds]

(* C1: every published snapshot with paused = TRUE has next_trigger_at absent. *)
C1_PausedHidesNextTrigger ==
    \A i \in 1..Len(pubs) :
        pubs[i].snap.paused => pubs[i].snap.next_trigger_at = None

(* C2: while the last Snooze has not been cancelled by ClearSnooze or
   SkipCurrent, a deadline firing that sends a reminder does not happen
   before that Snooze's expiry. *)
C2_NoReminderBeforeSnoozeExpiry ==
    (ev.kind = "Deadline" /\ notes > 0 /\ snooze_req # None) => now >= snooze_req

(* C2 witness: an unpaused engine's deadline fired before the expiry of the
   snooze in force and stayed silent. *)
C2_Witness ==
    /\ ev.kind = "Deadline"
    /\ ~ev.was_paused
    /\ snooze_req # None
    /\ now < snooze_req
    /\ notes = 0

(* the conditions under which the deadline branch sends a reminder *)
DeadlineShouldNotify(sample) ==
    /\ ~paused
    /\ ~(snoozed_until # None /\ now < snoozed_until)
    /\ \/ ~prefs.activity_detection
       \/ sample = SampleErr
       \/ (sample # NotSampled /\ sample < idle_threshold_secs(prefs))

(* C3: a deadline firing sends a reminder if and only if the engine is not
   paused, no snooze expires in the future, and detection is off or the idle
   sample is below the threshold or the sample failed. *)
C3_DeadlineNotifiesIff ==
    [][ev'.kind = "Deadline" =>
          (notes' = 1 <=> DeadlineShouldNotify(ev'.arg)) /\ notes' \in {0, 1}]_vars

(* C3 witness: a firing whose idle sample failed sent a reminder. *)
C3_Witness ==
    /\ ev.kind = "Deadline"
    /\ ev.arg = SampleErr
    /\ notes = 1

(* C4: every deadline firing rearms the deadline to the firing time plus the
   interval whether or not it notified; unpaused, the next_trigger_at it
   publishes last is strictly later than the one published before; with
   detection off, no snooze and no pause the firing notifies. *)
C4_FiringAlwaysRearms ==
    [][ev'.kind = "Deadline" =>
          /\ next_instant' = now + interval_duration(prefs)
          /\ ~paused =>
                /\ status.next_trigger_at # None
                /\ status'.next_trigger_at = next_instant'
                /\ status'.next_trigger_at > status.next_trigger_at
          /\ (~paused /\ snoozed_until = None /\ ~prefs.activity_detection) =>
                notes' = 1]_vars

(* C4 witness: an unpaused engine's deadline fired a second time or later,
   sent no reminder, and the next deadline is one interval away. *)
C4_Witness ==
    /\ ev.kind = "Deadline"
    /\ ~paused
    /\ notes = 0
    /\ status.last_notification_at # None
    /\ status.next_trigger_at = now + interval_duration(prefs)

(* C5: while the engine's preferences have activity detection disabled,
   every published snapshot has idle_seconds absent. *)
C5_NoIdleSecondsWhenDetectionOff ==
    ~prefs.activity_detection =>
        \A i \in 1..Len(pubs) : pubs[i].snap.idle_seconds = None

(* C6: SetPaused(false) publishes paused = FALSE and next_trigger_at = now +
   interval, strictly in the future; SetPaused(true) publishes paused = TRUE
   and next_trigger_at absent. *)
C6_PauseSnapshot ==
    ev.kind = "Pause" =>
        /\ Len(pubs) = 1
        /\ IF ev.arg = 0
           THEN /\ pubs[1].snap.paused = FALSE
                /\ pubs[1].snap.next_trigger_at = now + interval_duration(prefs)
                /\ pubs[1].snap.next_trigger_at > now
           ELSE /\ pubs[1].snap.paused = TRUE
                /\ pubs[1].snap.next_trigger_at = None

(* C6 witness: a paused engine was un-paused later than the start, at a
   moment that is not the moment its last deadline was armed for. *)
C6_Witness ==
    /\ ev.kind = "Pause"
    /\ ev.arg = 0
    /\ ev.was_paused
    /\ now >= 2 * MinuteSecs
    /\ status.next_trigger_at = now + interval_duration(prefs)

(* C7: Snooze(d) at time t sets snoozed_until and the deadline to t + d and
   leaves the pause flag and the idle state as they were. *)
C7_SnoozeEffect ==
    [][ev'.kind = "Snooze" =>
          /\ snoozed_until' = now + ev'.arg
          /\ next_instant' = now + ev'.arg
          /\ paused' = paused
          /\ was_idle' = was_idle
          /\ last_idle_secs' = last_idle_secs]_vars

(* C7 witness: a Snooze replaced an earlier snooze and an earlier deadline
   of an engine with a recorded idle state. *)
C7_Witness ==
    /\ ev.kind = "Snooze"
    /\ was_idle
    /\ last_idle_secs # None
    /\ now > 0
    /\ snoozed_until = now + ev.arg
    /\ next_instant = snoozed_until

(* C8: ClearSnooze with no snooze stored republishes paused, snoozed_until,
   last_notification_at and idle_seconds as they were; next_trigger_at is as
   it was when paused, and as it was or now + interval when not paused. *)
C8_ClearSnoozeIdempotent ==
    [][(ev'.kind = "ClearSnooze" /\ snoozed_until = None) =>
          /\ status'.paused = status.paused
          /\ status'.snoozed_until = status.snoozed_until
          /\ status'.last_notification_at = status.last_notification_at
          /\ status'.idle_seconds = status.idle_seconds
          /\ paused => status'.next_trigger_at = status.next_trigger_at
          /\ ~paused => status'.next_trigger_at \in
                          {status.next_trigger_at, now + interval_duration(prefs)}]_vars

(* C9: TriggerNow sends exactly one reminder whatever the pause flag, the
   snooze and the idle state; it stamps last_notification_at with the time,
   rearms the deadline to now + interval and leaves the pause flag, the
   snooze and the idle state as they were. *)
C9_TriggerNowEffect ==
    [][ev'.kind = "TriggerNow" =>
          /\ notes' = 1
          /\ status'.last_notification_at = now
          /\ next_instant' = now + interval_duration(prefs)
          /\ paused' = paused
          /\ snoozed_until' = snoozed_until
          /\ was_idle' = was_idle
          /\ last_idle_secs' = last_idle_secs]_vars

(* C9 witness: TriggerNow ran on a paused, snoozed, idle engine. *)
C9_Witness ==
    /\ ev.kind = "TriggerNow"
    /\ paused
    /\ snoozed_until # None /\ snoozed_until > now
    /\ was_idle
    /\ notes = 1

(* C10: every published snapshot equals the snapshot derived from the engine
   state at the moment it is published. *)
C10_PublishedIsDerived ==
    \A i \in 1..Len(pubs) : EngineView(pubs[i].snap) = pubs[i].derived

(* C11: at a deadline firing of an unpaused engine with no snooze pending
   and detection on, a failed idle sample leads to a reminder and leaves the
   recorded idle seconds and the idle flag as they were. *)
C11_SampleFailureNotifies ==
    [][(ev'.kind = "Deadline" /\ ev'.arg = SampleErr) =>
          /\ prefs.activity_detection /\ ~paused
          /\ ~snooze_pending(snoozed_until, now)
          /\ notes' = 1
          /\ last_idle_secs' = last_idle_secs
          /\ was_idle' = was_idle]_vars

(* C11 witness: the sample failed at a firing of an engine that had
   recorded an idle user; the reminder went out and the record stayed. *)
C11_Witness ==
    /\ ev.kind = "Deadline"
    /\ ev.arg = SampleErr
    /\ notes = 1
    /\ was_idle
    /\ last_idle_secs = 120

(* C12: a query is answered from the event-driven state only if the
   subscription succeeded (connection, registry, seat and idle notifier);
   otherwise it is answered by polling. *)
C12_EventDrivenOnlyWhenSubscribed ==
    query.pc = "done" => (query.source = "wayland" <=> Subscribable)

(* C13: no command ends the engine loop: after any Snooze, whatever its
   number of minutes, the engine is running. *)
C13_EngineNeverStops == w_engine = "running"

(* C15: for every u64 idle_threshold_minutes, idle_threshold_secs() is in
   [60, 1800]; for every u64 interval_minutes, interval_duration() yields at
   least 60 seconds. *)
C15_ClampingLaw ==
    /\ w_call = "threshold" =>
          /\ ~u64_lt(w_out.val, u64(60))
          /\ ~u64_lt(u64(1800), w_out.val)
    /\ w_call = "interval" =>
          /\ ~w_out.panic
          /\ ~u64_lt(w_out.val, u64(60))

(* C16: every Snooze that reaches the engine carries at least 60 seconds,
   and a request of 0 minutes reaches it as 60 seconds. *)
C16_SnoozeAtLeastOneMinute ==
    /\ w_chan # <<>> => ~u64_lt(w_chan, u64(60))
    /\ (w_call = "snooze" /\ w_in = u64(0) /\ w_chan # <<>>) => w_chan = u64(60)

(* C14: the commands the engine has received, followed by those still in the
   buffer, are the commands in the order they were enqueued, each once; a
   command that has not been enqueued yet is waiting. *)
C14_ExactlyOnceInOrder ==
    /\ c_done \o c_queue = c_log
    /\ \A i, j \in 1..Len(c_log) : c_log[i] = c_log[j] => i = j
    /\ {c_log[i] : i \in 1..Len(c_log)} \cup c_waiting = 1..c_issued
    /\ Len(c_queue) <= CONTROL_CHANNEL_CAPACITY

(* C14 witness: more than 16 commands were pending at once and all of them
   have been received. *)
C14_Witness ==
    /\ c_issued > CONTROL_CHANNEL_CAPACITY + 1
    /\ Len(c_done) = c_issued
    /\ \E i \in 1..(Len(c_log) - 1) : c_log[i] > c_log[i + 1]

(* C17: the preferences an update_preferences call returns have the interval
   within [2, 240] when one was supplied and the threshold within [1, 30] when
   one was supplied, keep every field the update does not name as the call
   read it, and are the value of the PreferencesUpdated the call sent. *)
C17_ReturnedPreferences ==
    \A c \in Calls :
        s_calls[c].ret # <<>> =>
            LET r == s_calls[c].ret[1]
                u == s_calls[c].update
            IN  /\ u.interval_minutes # None => r.interval_minutes \in 2..240
                /\ u.idle_threshold_minutes # None =>
                       r.idle_threshold_minutes \in 1..30
                /\ \A f \in PreferenceFields :
                       u[f] = None => r[f] = s_calls[c].before[f]
                /\ s_calls[c].sent = <<r>>

(* C17 witness: one call returned after supplying an interval above 240, another
   after supplying a threshold below 1. *)
C17_Witness ==
    /\ \E c \in Calls :
          /\ s_calls[c].ret # <<>>
          /\ s_calls[c].update.interval_minutes > 240
    /\ \E c \in Calls :
          /\ s_calls[c].ret # <<>>
          /\ s_calls[c].update.idle_threshold_minutes = 0

(* the one case in which an idle-poll tick with sample `sample` rearms *)
PollShouldRearm(sample) ==
    /\ prefs.activity_detection
    /\ sample >= 0
    /\ sample < idle_threshold_secs(prefs)
    /\ was_idle
    /\ ~paused
    /\ ~(snoozed_until # None /\ snoozed_until > now)

(* C18: an idle-poll tick moves the deadline to now + interval, with an expired
   snooze cleared, exactly when detection is on, the sample succeeds below the
   threshold, the idle flag was set, the engine is not paused and no snooze is
   still running; otherwise the deadline stays, and an idle-to-active sample
   clears the idle flag either way. *)
C18_PollRearmsOnlyOnReturn ==
    [][ev'.kind = "IdlePoll" =>
          /\ IF PollShouldRearm(ev'.arg)
             THEN /\ next_instant' = now + interval_duration(prefs)
                  /\ snoozed_until' = None
             ELSE next_instant' = next_instant
          /\ (/\ prefs.activity_detection
              /\ ev'.arg >= 0
              /\ ev'.arg < idle_threshold_secs(prefs)
              /\ was_idle) => ~was_idle'
      ]_vars

(* C18, the other side: a returning user's tick found the idle flag set and a snooze
   still running on an unpaused engine: the flag is cleared, the deadline is
   the snooze's expiry. *)
C18_WitnessSnoozed ==
    /\ ev.kind = "IdlePoll"
    /\ ev.found_idle
    /\ ev.arg = 0
    /\ ~ev.was_paused
    /\ ~was_idle
    /\ snoozed_until # None
    /\ snoozed_until > now
    /\ next_instant = snoozed_until

(* C18 witness: a returning user's tick rearmed the deadline after clearing an
   expired snooze. *)
C18_Witness ==
    /\ ev.kind = "IdlePoll"
    /\ ev.found_idle
    /\ ev.arg = 0
    /\ ~ev.was_paused
    /\ snooze_req # None
    /\ snooze_req <= now
    /\ snoozed_until = None
    /\ next_instant = now + interval_duration(prefs)

(* C19: PreferencesUpdated adopts the new preferences; with a snooze still
   running the deadline becomes the snooze's expiry and snoozed_until stays,
   otherwise the deadline becomes now + the new interval. *)
C19_PreferencesRecompute ==
    [][ev'.kind = "PreferencesUpdated" =>
          /\ \E update \in Updates : prefs' = update_preferences(prefs, update)
          /\ IF snoozed_until # None /\ snoozed_until > now
             THEN /\ next_instant' = snoozed_until
                  /\ snoozed_until' = snoozed_until
             ELSE next_instant' = now + interval_duration(prefs')
      ]_vars

(* C19 witness: new preferences arrived during a snooze, after the snooze's
   command: the deadline is the snooze's expiry, not now + the new interval,
   and not a restarted snooze. *)
C19_Witness ==
    /\ ev.kind = "PreferencesUpdated"
    /\ snoozed_until # None
    /\ snoozed_until > now
    /\ next_instant = snoozed_until
    /\ next_instant # now + interval_duration(prefs)
    /\ snooze_req = snoozed_until
    /\ \E m \in SnoozeMinutes : snoozed_until < now + snooze(m)

(* C20: the snapshot PreferencesUpdated publishes has the paused and
   snoozed_until values of the snapshot published before it. *)
C20_PreferencesKeepsPauseAndSnooze ==
    [][ev'.kind = "PreferencesUpdated" =>
          /\ status'.paused = status.paused
          /\ status'.snoozed_until = status.snoozed_until
      ]_vars

(* C20, the part that holds: the paused value is kept, and so is snoozed_until
   unless the snooze's expiry has passed. *)
C20_KeepsPauseAndRunningSnooze ==
    [][ev'.kind = "PreferencesUpdated" =>
          /\ status'.paused = status.paused
          /\ (status.snoozed_until # None /\ status.snoozed_until > now)
                => status'.snoozed_until = status.snoozed_until
          /\ status.snoozed_until = None => status'.snoozed_until = None
      ]_vars

(* C21: Pause rearms the deadline to now + interval only on a step from paused
   to unpaused; Pause(true), and Pause(false) on an unpaused engine, leave the
   deadline as it is; snoozed_until is never changed. *)
C21_PauseRearmsOnlyOnResume ==
    [][ev'.kind = "Pause" =>
          /\ IF paused /\ ~paused'
             THEN next_instant' = now + interval_duration(prefs)
             ELSE next_instant' = next_instant
          /\ snoozed_until' = snoozed_until
      ]_vars

(* C21, the part that holds: Pause(true) leaves the deadline, every Pause(false)
   rearms it, no Pause touches snoozed_until. *)
C21_PauseFalseAlwaysRearms ==
    [][ev'.kind = "Pause" =>
          /\ IF ~paused'
             THEN next_instant' = now + interval_duration(prefs)
             ELSE next_instant' = next_instant
          /\ snoozed_until' = snoozed_until
      ]_vars

(* C22: ClearSnooze and SkipCurrent do the same from every state: a step of one
   is a step of the other but for the recorded event, snoozed_until becomes
   absent, an unpaused engine gets the deadline now + interval, published as
   next_trigger_at, a paused one keeps its deadline and publishes none. *)
C22_ClearAndSkipAgree ==
    [][(ev'.kind \in {"ClearSnooze", "SkipCurrent"}) =>
          /\ ClearSnoozeBody
          /\ SkipCurrentBody
          /\ snoozed_until' = None
          /\ status'.snoozed_until = None
          /\ IF paused
             THEN /\ next_instant' = next_instant
                  /\ status'.next_trigger_at = None
             ELSE /\ next_instant' = now + interval_duration(prefs)
                  /\ status'.next_trigger_at = now + interval_duration(prefs)
      ]_allvars

(* C22 witness: SkipCurrent was handled by an unpaused engine after time had
   passed: no snooze is left and the deadline, as published, is now + interval. *)
C22_Witness ==
    /\ ev.kind = "SkipCurrent"
    /\ ~ev.was_paused
    /\ now > 0
    /\ snoozed_until = None
    /\ status.snoozed_until = None
    /\ next_instant = now + interval_duration(prefs)
    /\ status.next_trigger_at = next_instant

(* an unpaused engine waiting for the expiry of the last Snooze *)
SnoozeWaiting ==
    /\ ~paused
    /\ snooze_req # None
    /\ snoozed_until = snooze_req
    /\ next_instant = snooze_req
    /\ now <= snooze_req

(* C23: once a Snooze(d) was processed at t on an unpaused engine, steps other
   than control commands keep the engine waiting for t + d until the deadline
   fires; it fires at t + d, clears snoozed_until, notifies when detection is
   off or the user is not idle, and rearms to t + d + interval. *)
C23_SnoozeExpiryFires ==
    [][(SnoozeWaiting /\ ev'.kind \in {"Tick", "IdlePoll", "Deadline"}) =>
          IF ev'.kind = "Deadline"
          THEN /\ now = snooze_req
               /\ snoozed_until' = None
               /\ (\/ ~prefs.activity_detection
                   \/ (ev'.arg >= 0 /\ ev'.arg < idle_threshold_secs(prefs)))
                     => notes' = 1
               /\ next_instant' = snooze_req + interval_duration(prefs)
          ELSE SnoozeWaiting'
      ]_vars

(* C23, the part that holds: the same, but for an idle-poll tick handled at
   t + d ahead of the deadline that finds a returning user and rearms. *)
C23_SnoozeExpiryFiresUnlessPolled ==
    [][(SnoozeWaiting /\ ev'.kind \in {"Tick", "IdlePoll", "Deadline"}) =>
          IF ev'.kind = "Deadline"
          THEN /\ now = snooze_req
               /\ snoozed_until' = None
               /\ (\/ ~prefs.activity_detection
                   \/ (ev'.arg >= 0 /\ ev'.arg < idle_threshold_secs(prefs)))
                     => notes' = 1
               /\ next_instant' = snooze_req + interval_duration(prefs)
          ELSE \/ SnoozeWaiting'
               \/ /\ ev'.kind = "IdlePoll"
                  /\ now = snooze_req
                  /\ PollShouldRearm(ev'.arg)
      ]_vars

(* C24: a deadline firing on an unpaused engine with detection on and no
   unexpired snooze records a successful sample s as idle_seconds; at or above
   the threshold it sends nothing and sets the idle flag, below it clears the
   flag and notifies; either way the deadline becomes now + interval. *)
C24_DeadlineIdleCheck ==
    [][(/\ ev'.kind = "Deadline"
        /\ prefs.activity_detection
        /\ ~paused
        /\ ~(snoozed_until # None /\ now < snoozed_until)
        /\ ev'.arg >= 0) =>
          /\ last_idle_secs' = ev'.arg
          /\ \A i \in 1..Len(pubs') : pubs'[i].snap.idle_seconds = ev'.arg
          /\ status'.idle_seconds = ev'.arg
          /\ IF ev'.arg >= idle_threshold_secs(prefs)
             THEN notes' = 0 /\ was_idle'
             ELSE notes' = 1 /\ ~was_idle'
          /\ next_instant' = now + interval_duration(prefs)
      ]_vars

(* C24 witness: the deadline fired, after time had passed, for a user idle for
   exactly the threshold: silent, idle flag set, sample published, rearmed. *)
C24_Witness ==
    /\ ev.kind = "Deadline"
    /\ ~ev.was_paused
    /\ prefs.activity_detection
    /\ now > 0
    /\ ev.arg = idle_threshold_secs(prefs)
    /\ status.idle_seconds = ev.arg
    /\ notes = 0
    /\ was_idle
    /\ next_instant = now + interval_duration(prefs)

(* C25: last_notification_at changes only in a step that sends a reminder, a
   deadline firing or TriggerNow, which sets it to the time of the step; every
   other step leaves it, so it never returns to absent and never decreases. *)
C25_LastNotificationOnlyOnNotify ==
    [][/\ notes' > 0 => /\ ev'.kind \in {"Deadline", "TriggerNow"}
                        /\ status'.last_notification_at = now
       /\ notes' = 0 => status'.last_notification_at = status.last_notification_at
       /\ status.last_notification_at # None =>
             /\ status'.last_notification_at # None
             /\ status'.last_notification_at >= status.last_notification_at
       /\ \A i \in 1..Len(pubs') :
             pubs'[i].snap.last_notification_at = status'.last_notification_at
      ]_vars

(* C25 witness: a silent deadline firing left the stamp of an earlier
   reminder in the snapshot it published. *)
C25_Witness ==
    /\ ev.kind = "Deadline"
    /\ notes = 0
    /\ Len(pubs) = 2
    /\ status.last_notification_at # None
    /\ status.last_notification_at < now

(* C26: with detection off, an idle-poll tick that finds a recorded sample or
   a set idle flag clears both and publishes idle_seconds absent; after any
   such tick both are clear and idle_seconds is absent, they stay so while
   detection is off, and the step that turns detection on finds the flag clear. *)
C26_PollClearsWhenDetectionOff ==
    [][/\ (ev'.kind = "IdlePoll" /\ ~prefs.activity_detection) =>
             /\ last_idle_secs' = None
             /\ ~was_idle'
             /\ status'.idle_seconds = None
             /\ (last_idle_secs # None \/ was_idle) =>
                   /\ Len(pubs') = 1
                   /\ pubs'[1].snap.idle_seconds = None
       /\ (~prefs.activity_detection /\ last_idle_secs = None /\ ~was_idle) =>
             /\ ~was_idle'
             /\ ~prefs'.activity_detection =>
                   (last_idle_secs' = None /\ status'.idle_seconds = None)
      ]_vars

(* C26 witness: with detection off a tick found the idle flag set and cleared
   it, publishing idle_seconds absent. *)
C26_Witness ==
    /\ ev.kind = "IdlePoll"
    /\ ev.found_idle
    /\ ~prefs.activity_detection
    /\ ~was_idle
    /\ last_idle_secs = None
    /\ Len(pubs) = 1
    /\ pubs[1].snap.idle_seconds = None

(* C27: an idle-poll tick whose sample fails changes nothing and publishes
   nothing. *)
C27_FailedPollChangesNothing ==
    [][(ev'.kind = "IdlePoll" /\ ev'.arg = SampleErr) =>
          /\ UNCHANGED <<last_idle_secs, was_idle, next_instant, snoozed_until,
                         paused, prefs, status>>
          /\ pubs' = <<>>
          /\ notes' = 0
      ]_vars

(* C27 witness: a failed tick found the idle flag set and an earlier sample
   recorded, and both are still there. *)
C27_Witness ==
    /\ ev.kind = "IdlePoll"
    /\ ev.arg = SampleErr
    /\ ev.found_idle
    /\ was_idle
    /\ last_idle_secs # None
    /\ status.idle_seconds = last_idle_secs
    /\ pubs = <<>>

(* C28: whatever the listener is doing, a query answered from the
   event-driven state reports 0, or at least the threshold and at most the
   threshold plus the seconds since the last Idled event. *)
C28_QueryWithinIdleWindow ==
    [][(query' # query /\ query'.pc = "done" /\ query'.source = "wayland") =>
          \/ query'.result = 0
          \/ /\ idled_at # None
             /\ query'.result >= threshold_secs
             /\ query'.result <= threshold_secs + (d_clock - idled_at)
      ]_allvars

(* C28, the part that holds: a query that loads both values with the listener
   between two events is within the window. *)
C28_QuietQueryWithinIdleWindow ==
    [][(/\ query' # query /\ query'.pc = "done" /\ query'.source = "wayland"
        /\ listener = "subscribed"
        /\ is_idle) =>
          /\ idled_at # None
          /\ query'.result >= threshold_secs
          /\ query'.result <= threshold_secs + (d_clock - idled_at)
      ]_allvars

(* the kinds of the control commands *)
ControlKinds ==
    {"PreferencesUpdated", "Pause", "Snooze", "ClearSnooze", "SkipCurrent",
     "TriggerNow"}

(* the last step took an idle sample at or above the threshold *)
SampledIdle ==
    /\ ev.kind \in {"Deadline", "IdlePoll"}
    /\ ev.arg >= idle_threshold_secs(prefs)

(* C29: every event leaves the one deadline armed at a time not before the
   event; under a fair timer a deadline armed within the clock's range fires
   unless a command or a returning user's tick re-arms it first; and on an
   unpaused engine with no snooze and a clear idle flag a reminder is sent
   unless a command arrives or the user is sampled idle first. *)
C29_DeadlineAlwaysArmed ==
    /\ [][ev'.kind # "Tick" => (next_instant' # None /\ next_instant' >= now)]_vars
    /\ (next_instant <= Horizon) ~>
          \/ ev.kind = "Deadline"
          \/ ev.kind \in ControlKinds
          \/ (ev.kind = "IdlePoll" /\ ev.found_idle)
    /\ (~paused /\ snoozed_until = None /\ ~was_idle /\ next_instant <= Horizon) ~>
          \/ notes = 1
          \/ ev.kind \in ControlKinds
          \/ SampledIdle

(* C29 witness: after the clock moved, with no command since the start, the
   deadline of an unpaused engine fired and a reminder was sent. *)
C29_Witness ==
    /\ ev.kind = "Deadline"
    /\ ~ev.was_paused
    /\ now > 0
    /\ notes = 1
    /\ snooze_req = None
    /\ next_instant = now + interval_duration(prefs)

(* C30: a finished load of an absent or unparsable file has returned the
   defaults; for the unparsable file its content then sits under a backup path
   that did not exist before, every earlier backup is as it was, and
   preferences.json holds the defaults. *)
C30_LoadKeepsCorruptInput ==
    l_pc = "done" =>
        /\ l_found = "absent" => l_ret = "defaults"
        /\ l_found \in {"corrupt", "binary"} =>
              /\ l_ret = "defaults"
              /\ \E k \in BackupPaths \ l_earlier : l_backups[k] = "original"
              /\ \A k \in l_earlier : l_backups[k] = "earlier"
              /\ l_file = "defaults"

(* C30, the part that holds: an absent file gives the defaults and nothing is
   written; no earlier backup is ever overwritten; and when the defaults are
   returned for text that did not parse and the content was not removed, it
   sits under the first backup path that was free. *)
C30_LoadBackupWhenRenamed ==
    /\ \A k \in l_earlier : l_backups[k] = "earlier"
    /\ (l_pc = "done" /\ l_found = "absent") =>
          (l_ret = "defaults" /\ l_file = "absent")
    /\ (l_pc = "done" /\ l_found = "corrupt" /\ l_ret = "defaults") =>
          /\ l_file = "defaults"
          /\ \/ \A k \in BackupPaths \ l_earlier : l_backups[k] = "none"
             \/ /\ l_counter \notin l_earlier
                /\ l_backups[l_counter] = "original"
                /\ \A k \in 0..(l_counter - 1) : k \in l_earlier

(* C31: after every event the shared snapshot agrees with the engine: paused,
   snoozed_until and idle_seconds are the engine's values, and for an unpaused
   engine next_trigger_at is present and is the armed deadline. *)
C31_SnapshotAgreesWithEngine ==
    /\ status.paused = paused
    /\ status.snoozed_until = snoozed_until
    /\ status.idle_seconds = last_idle_secs
    /\ ~paused =>
          /\ status.next_trigger_at # None
          /\ status.next_trigger_at = next_instant

(* C31 witness: an idle-poll tick, which writes next_trigger_at only when it
   rearms, was handled during a snooze after time had passed; the snapshot
   shows the engine's snooze, sample and deadline. *)
C31_Witness ==
    /\ ev.kind = "IdlePoll"
    /\ ev.found_idle
    /\ ev.arg = 0
    /\ ~paused
    /\ now > 0
    /\ snoozed_until # None
    /\ status.snoozed_until = snoozed_until
    /\ status.idle_seconds = 0
    /\ status.next_trigger_at = next_instant

(* C32: every published snapshot of an unpaused engine that shows a
   snoozed_until still in the future has next_trigger_at at or after it. *)
C32_NextTriggerNotBeforeSnooze ==
    \A i \in 1..Len(pubs) :
        (/\ ~pubs[i].snap.paused
         /\ pubs[i].snap.snoozed_until # None
         /\ pubs[i].snap.snoozed_until > now) =>
            /\ pubs[i].snap.next_trigger_at # None
            /\ pubs[i].snap.next_trigger_at >= pubs[i].snap.snoozed_until

(* C32, the part that holds: on an unpaused engine the snapshot the Snooze
   itself publishes, and the one PreferencesUpdated publishes during a snooze,
   put next_trigger_at at the snooze's expiry. *)
C32_SnoozeAndPreferencesKeepExpiry ==
    (/\ ev.kind \in {"Snooze", "PreferencesUpdated"}
     /\ ~paused
     /\ status.snoozed_until # None
     /\ status.snoozed_until > now) =>
        \A i \in 1..Len(pubs) : pubs[i].snap.next_trigger_at = pubs[i].snap.snoozed_until

(* no update_preferences call is under way and the engine has taken every
   PreferencesUpdated out of the channel *)
SurfaceQuiet ==
    /\ \A c \in Calls : s_calls[c].pc \in {"idle", "done"}
    /\ s_chan = <<>>

(* C33: once every update_preferences call has returned and the engine has
   processed every command, the engine's preferences are AppState.preferences,
   and each field a successful call supplied has that call's value there unless
   another call supplied the same field. *)
C33_ConcurrentUpdatesConverge ==
    SurfaceQuiet =>
        /\ s_engine = s_prefs
        /\ \A c \in Calls : \A f \in PreferenceFields :
              (s_calls[c].ret # <<>> /\ s_calls[c].update[f] # None) =>
                  \/ s_prefs[f] = s_calls[c].ret[1][f]
                  \/ \E d \in Calls \ {c} :
                        s_calls[d].ret # <<>> /\ s_calls[d].update[f] # None

(* C33, the part that holds: when the calls do not overlap (each call reads
   what the one before stored) and their messages were sent in the order of
   the stores, the engine and the command surface agree. *)
C33_SequentialUpdatesConverge ==
    (/\ SurfaceQuiet
     /\ \A c, d \in Calls :
           (c # d /\ s_calls[c].ret # <<>> /\ s_calls[d].ret # <<>>) =>
               \/ s_calls[d].before = s_calls[c].ret[1]
               \/ s_calls[c].before = s_calls[d].ret[1]) =>
        \/ s_engine = s_prefs
        \/ \E c, d \in Calls :
              /\ c # d
              /\ s_calls[c].ret # <<>>
              /\ s_calls[d].ret # <<>>
              /\ s_calls[d].before = s_calls[c].ret[1]
              /\ s_engine = s_calls[c].ret[1]

(* C35: when save_preferences fails, the update_preferences call returns the
   error and nothing else: the step leaves AppState.preferences, the channel
   and the engine's preferences as they were, and the call never stores,
   sends or returns preferences afterwards. *)
C35_SaveFailureChangesNothing ==
    [][\A c \in Calls :
          s_calls'[c].err =>
              /\ s_calls'[c].pc = "done"
              /\ s_calls'[c].ret = <<>>
              /\ s_calls'[c].sent = <<>>
              /\ s_calls[c].pc = "computed" =>
                    /\ s_prefs' = s_prefs
                    /\ s_chan' = s_chan
                    /\ s_engine' = s_engine]_allvars

(* C35 witness: one call succeeded and was processed by the engine, a later
   call with other values failed to save; the command surface and the engine
   still hold the first call's preferences. *)
C35_Witness ==
    \E c, d \in Calls :
        /\ s_calls[c].err
        /\ s_calls[c].pc = "done"
        /\ s_calls[c].before = s_prefs
        /\ s_calls[c].local # s_prefs
        /\ s_calls[d].ret = <<s_prefs>>
        /\ s_prefs # DefaultPreferences
        /\ s_engine = s_prefs
        /\ s_chan = <<>>

(* every spawned task has sent its command and the engine has processed it *)
TrayQuiet ==
    /\ \A i \in 1..Len(t_tasks) : t_tasks[i].pc = "sent"
    /\ t_chan = <<>>

(* C34: starting from unpaused, once the commands of n activations of the
   tray's pause item are processed the engine is paused iff n is odd. *)
C34_ActivationsToggle ==
    TrayQuiet => (t_paused <=> (t_activations % 2 = 1))

(* C34, the part that holds: the engine ends with the flag of the command it
   processed last, and an activation made while nothing is in flight sends
   the opposite of the engine's flag. *)
C34_ActivationSendsNegatedSnapshot ==
    [][/\ (t_activations' = t_activations + 1 /\ TrayQuiet) =>
              t_tasks'[Len(t_tasks')].flag = ~t_paused
       /\ t_chan # t_chan' /\ Len(t_chan') < Len(t_chan) =>
              t_paused' = Head(t_chan)]_allvars

(* the last idle check was made with activity detection on, after a
   PreferencesUpdated changed the idle threshold, of a user inactive for at
   least the new threshold, with a sample obtained and no notification of the
   compositor outstanding *)
CheckedAfterReplace ==
    /\ g_check.kind = "checked"
    /\ g_check.replaced
    /\ g_check.detection
    /\ g_check.sample \notin {SampleErr, NotSampled}
    /\ ~g_check.pending
    /\ g_check.inactive >= g_check.threshold

(* C36: after a PreferencesUpdated that changed the idle threshold, an idle
   check of a user continuously inactive for at least the new threshold
   finds the user idle, with either backend. *)
C36_NewThresholdSeenAsIdle ==
    CheckedAfterReplace => g_check.idle

(* C36, the part that holds: the check finds such a user idle when the sample
   comes from try_x11_idle, and with the event-driven backend when the new
   threshold is not below the one the IdleDetector was built with. *)
C36_NewThresholdSeenUnlessLowered ==
    (/\ CheckedAfterReplace
     /\ g_backend = "x11" \/ g_check.threshold >= g_threshold_secs) => g_check.idle

====
